---- MODULE Spec2Model ----
(***************************************************************************)
(* zapguard: the in-memory circuit breaker engine (src/src/circuit-        *)
(* breaker.ts).  The breaker owns one state object on the heap, replaces   *)
(* it on every transition (setState) and hands out copies (getState).      *)
(* Objects are modelled with identity so that aliasing is observable.      *)
(***************************************************************************)
EXTENDS Integers, Sequences, FiniteSets, TLC

\* ---------------------------------------------------------------- bounds
MaxThreshold == 2       \* failureThreshold, successThreshold range over 1..MaxThreshold
MaxTimeout == 2         \* resetTimeoutMs ranges over 0..MaxTimeout
MaxTime == 3            \* Date.now() ranges over 0..MaxTime
MaxInFlight == 2        \* wrapped invocations awaiting their protected function

\* ----------------------------------------------------------------- state
VARIABLES
  options,         \* CircuitBreakerOptions given to the constructor
  hooks,           \* CircuitBreakerHooks given to the constructor
  heap,            \* live CircuitBreakerState objects, by object identity
  state,           \* this.state: reference to the breaker's state object
  snap,            \* reference the caller keeps to an object returned by getState()
  now,             \* Date.now()
  op,              \* the last call made
  result,          \* how the last call ended
  pre,             \* value of this.state when the last call started
  hookLog,         \* hooks invoked by the last call, in order
  failuresSinceEntry,  \* recordFailure calls made since the breaker entered its status
  probeSuccesses,      \* recordSuccess calls made since the breaker entered HALF_OPEN
  \* calls made through withCircuitBreaker
  inflight,        \* admitted invocations whose protected function has not settled
  catching,        \* error held by a wrapped invocation that is inside its catch block
  recorded,        \* outcome reports made for the wrapped invocation that settled last
  delivered,       \* what the caller of the last wrapped invocation received
  fnOutcome,       \* how the protected function of that invocation settled
  \* RemoteCircuitBreaker and its storage
  store,           \* the storage's entry under the breaker's name
  pending,         \* position of the safeSave() call in progress
  storageLog,      \* storage calls of the remote operation in progress, or of the last call
  cause,           \* `cause` of the error the last call failed with
  loaded,          \* reference returned by the last load()
  lastSaved,       \* state written by the last save, while nothing else wrote the entry
  \* the storage adapter, and a second instance under the same name
  storage,         \* which storage the constructor was given
  kv,              \* the document the KV namespace holds under the breaker's name
  peer,            \* this.state of the second instance
  peerPending,     \* position of the second instance's safeSave() call in progress
  peerOp,          \* the last remote call made on the second instance
  peerResult,      \* how the second instance's last remote call ended
  stale,           \* the second instance wrote the entry after this one last loaded or saved it
  \* when the wrapped invocations in flight were admitted
  probesInFlight,  \* invocations in flight that the gate admitted in the present HALF_OPEN period
  probeResolved    \* such invocations that resolved since HALF_OPEN was last entered

wrapperVars == <<inflight, catching, recorded, delivered, fnOutcome>>
remoteVars == <<store, pending, storageLog, cause, loaded, lastSaved>>
sharedVars == <<storage, kv, peer, peerPending, peerOp, peerResult, stale>>
admissionVars == <<probesInFlight, probeResolved>>

vars == <<options, hooks, heap, state, snap, now, op, result, pre, hookLog,
          failuresSinceEntry, probeSuccesses, wrapperVars, remoteVars, sharedVars,
          admissionVars>>

\* openedAt?: number -- an absent key and the value undefined read the same
Undefined == -1
NoRef == 0

\* storage.get resolves to undefined: no entry under the key
NoEntry == [value |-> NoRef, version |-> 0]

\* kv.get resolves to null: no document under the key
NoDoc == [version |-> Undefined]

\* no state on record
NoState == [status |-> "NONE", failureCount |-> 0, successCount |-> 0, openedAt |-> Undefined]

CircuitBreakerStatus == {"OPEN", "CLOSED", "HALF_OPEN"}

CircuitBreakerOptions ==
  [failureThreshold : 1..MaxThreshold,
   successThreshold : 1..MaxThreshold,
   resetTimeoutMs : 0..MaxTimeout]

\* each hook is optional; a supplied hook either observes or throws
HookKinds == {"absent", "observes", "throws"}
CircuitBreakerHooks == [onStateChange : HookKinds, onError : HookKinds]
WellBehavedHooks == [onStateChange : {"absent", "observes"}, onError : {"absent", "observes"}]

\* the value of the `state` field initialiser
InitialState ==
  [status |-> "CLOSED", failureCount |-> 0, successCount |-> 0, openedAt |-> Undefined]

\* JavaScript truthiness of an optional number
Truthy(x) == x # Undefined /\ x # 0

cur == heap[state]

isOpen == cur.status = "OPEN"
isClosed == cur.status = "CLOSED"
isHalfOpen == cur.status = "HALF_OPEN"

\* ------------------------------------------------------------ the heap
SnapRefs == IF snap = NoRef THEN {} ELSE {snap}

\* MockStorage keeps the object it was handed, and get hands the same object out
StoreRefs == IF store.value = NoRef THEN {} ELSE {store.value}
LoadedRefs == IF loaded = NoRef THEN {} ELSE {loaded}

\* references to state objects held outside the breaker
HeldRefs == SnapRefs \cup StoreRefs \cup LoadedRefs

\* identity of a freshly created object: the least identity that no reference
\* holds once the call has returned (identities are only ever compared)
NewObj(live) ==
  CHOOSE i \in 1..(Cardinality(live) + 1) : i \notin live /\ \A j \in 1..(i - 1) : j \in live

\* objects no reference reaches are collected
Collect(h, live) == [i \in live |-> h[i]]

\* ------------------------------------------------- how a call can end
\* the `name` constructor argument, handed to every hook as meta.name
BreakerName == "test-cb"

\* onError(err, { name: this.name, operation })
onErrorCall(err, operation) ==
  [hook |-> "onError", error |-> err, name |-> BreakerName, operation |-> operation]

\* onStateChange(prev, this.state, { name: this.name })
onStateChangeCall(prev, next) ==
  [hook |-> "onStateChange", prev |-> prev, next |-> next, name |-> BreakerName]

catchAndRethrow_silent(err, log) ==
  /\ hookLog' = log
  /\ result' = err

\* the catch block of every engine method: report to onError, rethrow
catchAndRethrow(err, log) ==
  /\ hookLog' = (IF hooks.onError = "absent" THEN log
                 ELSE Append(log, onErrorCall(err, op')))
  /\ result' = (IF hooks.onError = "throws" THEN "HookError" ELSE err)

returnNormally(log) ==
  /\ hookLog' = log
  /\ result' = "ok"

\* the hook is called before this.state is assigned
setState_hookFirst(next) ==
  LET o == NewObj(HeldRefs)
      call == onStateChangeCall(heap[state], heap[state])
  IN /\ state' = o
     /\ heap' = [i \in {o} \cup HeldRefs |-> IF i = o THEN next ELSE heap[i]]
     /\ CASE hooks.onStateChange = "absent" -> returnNormally(<<>>)
          [] hooks.onStateChange = "observes" -> returnNormally(<<call>>)
          [] hooks.onStateChange = "throws" -> catchAndRethrow("HookError", <<call>>)

\* the hook throws before this.state is assigned
setState_abortsOnThrow(next) ==
  LET o == NewObj(HeldRefs)
      call == onStateChangeCall(heap[state], next)
  IN CASE hooks.onStateChange = "absent" ->
            /\ state' = o
            /\ heap' = [i \in {o} \cup HeldRefs |-> IF i = o THEN next ELSE heap[i]]
            /\ returnNormally(<<>>)
       [] hooks.onStateChange = "observes" ->
            /\ state' = o
            /\ heap' = [i \in {o} \cup HeldRefs |-> IF i = o THEN next ELSE heap[i]]
            /\ returnNormally(<<call>>)
       [] hooks.onStateChange = "throws" ->
            /\ UNCHANGED <<heap, state>>
            /\ catchAndRethrow("HookError", <<call>>)

\* private setState(next): this.state = { ...next }, then onStateChange
setState(next) ==
  LET o == NewObj(HeldRefs)
      call == onStateChangeCall(heap[state], heap'[state'])
  IN /\ state' = o
     /\ heap' = [i \in {o} \cup HeldRefs |-> IF i = o THEN next ELSE heap[i]]
     /\ CASE hooks.onStateChange = "absent" -> returnNormally(<<>>)
          [] hooks.onStateChange = "observes" -> returnNormally(<<call>>)
          [] hooks.onStateChange = "throws" -> catchAndRethrow("HookError", <<call>>)

noStateChange == UNCHANGED <<heap, state>>

\* ------------------------------------------------------ the decisions
canProbe_noDeadline(s, t) == Truthy(s.openedAt)

\* openedAt && Date.now() - openedAt >= resetTimeoutMs
canProbe(s, t) == Truthy(s.openedAt) /\ t - s.openedAt >= options.resetTimeoutMs

halfOpenState_clearsOpenedAt(s) ==
  [s EXCEPT !.status = "HALF_OPEN", !.successCount = 0, !.failureCount = 0,
            !.openedAt = Undefined]

halfOpenState(s) ==
  [s EXCEPT !.status = "HALF_OPEN", !.successCount = 0, !.failureCount = 0]

closedState ==
  [status |-> "CLOSED", failureCount |-> 0, successCount |-> 0, openedAt |-> Undefined]

openState_keepsStamp(t) ==
  [status |-> "OPEN", failureCount |-> 0, successCount |-> 0,
   openedAt |-> IF heap[state].openedAt # Undefined THEN heap[state].openedAt ELSE t]

openState(t) ==
  [status |-> "OPEN", failureCount |-> 0, successCount |-> 0, openedAt |-> t]

reachesSuccessThreshold_late(successCount) == successCount > options.successThreshold

reachesSuccessThreshold(successCount) == successCount >= options.successThreshold

reachesFailureThreshold_late(failureCount) == failureCount > options.failureThreshold

reachesFailureThreshold_probe(failureCount) ==
  heap[state].status = "HALF_OPEN" \/ failureCount >= options.failureThreshold

reachesFailureThreshold(failureCount) == failureCount >= options.failureThreshold

\* -------------------------------------------------------- the methods
called(name) ==
  /\ op' = name
  /\ pre' = cur
  /\ UNCHANGED <<options, hooks, now>>

recordSuccessApplies_any == isHalfOpen \/ isOpen

\* line 80: recordSuccess acts only while HALF_OPEN
recordSuccessApplies == isHalfOpen

recordFailureApplies_always == TRUE

\* line 105: recordFailure acts while CLOSED or HALF_OPEN
recordFailureApplies == isClosed \/ isHalfOpen

\* the calls counted since the breaker entered its present status
Bump(n) == IF n < MaxThreshold + 1 THEN n + 1 ELSE n

counted(name) ==
  /\ failuresSinceEntry' =
       (IF cur'.status # cur.status \/ cur'.status = "OPEN" THEN 0
        ELSE IF name = "recordFailure" THEN Bump(failuresSinceEntry)
        ELSE failuresSinceEntry)
  /\ probeSuccesses' =
       (IF cur'.status # cur.status \/ cur'.status # "HALF_OPEN" THEN 0
        ELSE IF name = "recordSuccess" THEN Bump(probeSuccesses)
        ELSE probeSuccesses)

assertCanExecute ==
  /\ called("assertCanExecute")
  /\ IF isOpen
       THEN IF canProbe(cur, now)
              THEN setState(halfOpenState(cur))
              ELSE noStateChange /\ catchAndRethrow("CircuitOpenError", <<>>)
       ELSE noStateChange /\ returnNormally(<<>>)
  /\ counted("assertCanExecute")
  /\ UNCHANGED snap

recordSuccess ==
  /\ called("recordSuccess")
  /\ IF recordSuccessApplies
       THEN LET successCount == cur.successCount + 1
            IN IF reachesSuccessThreshold(successCount)
                 THEN setState(closedState)
                 ELSE setState([cur EXCEPT !.successCount = successCount])
       ELSE noStateChange /\ returnNormally(<<>>)
  /\ counted("recordSuccess")
  /\ UNCHANGED snap

recordFailure ==
  /\ called("recordFailure")
  /\ IF recordFailureApplies
       THEN LET failureCount == cur.failureCount + 1
            IN IF reachesFailureThreshold(failureCount)
                 THEN setState(openState(now))
                 ELSE setState([cur EXCEPT !.failureCount = failureCount])
       ELSE noStateChange /\ returnNormally(<<>>)
  /\ counted("recordFailure")
  /\ UNCHANGED snap

getStateRef_alias == [ref |-> state, heap |-> heap]

\* public getState(): return { ...this.state }; the caller keeps the result
getStateRef ==
  LET others == StoreRefs \cup LoadedRefs
      o == NewObj({state} \cup others)
  IN [ref |-> o,
      heap |-> [i \in {state, o} \cup others |-> IF i = o THEN heap[state] ELSE heap[i]]]

getState ==
  /\ called("getState")
  /\ LET r == getStateRef
     IN /\ snap' = r.ref
        /\ heap' = r.heap
  /\ returnNormally(<<>>)
  /\ UNCHANGED <<state, failuresSinceEntry, probeSuccesses>>

\* isOpen() / isClosed() / isHalfOpen() called from outside
statusPredicate ==
  /\ \E p \in {"isOpen", "isClosed", "isHalfOpen"} :
       /\ called(p)
       /\ hookLog' = <<>>
       /\ result' = (IF \/ p = "isOpen" /\ isOpen
                        \/ p = "isClosed" /\ isClosed
                        \/ p = "isHalfOpen" /\ isHalfOpen
                     THEN "true" ELSE "false")
  /\ UNCHANGED <<heap, state, snap, failuresSinceEntry, probeSuccesses>>

\* --------------------------------------------------- the environment
\* the holder of a snapshot writes one of its fields
SnapshotWrites == {"status", "failureCount", "successCount", "openedAt"}

WriteField(s, w) ==
  CASE w = "status" -> [s EXCEPT !.status = "OPEN"]
    [] w = "failureCount" -> [s EXCEPT !.failureCount = 0]
    [] w = "successCount" -> [s EXCEPT !.successCount = 1]
    [] w = "openedAt" -> [s EXCEPT !.openedAt = Undefined]

mutateSnapshot ==
  /\ snap # NoRef
  /\ \E w \in SnapshotWrites :
       /\ WriteField(heap[snap], w) # heap[snap]
       /\ heap' = [heap EXCEPT ![snap] = WriteField(heap[snap], w)]
  /\ op' = "mutateSnapshot"
  /\ pre' = cur
  /\ result' = "ok"
  /\ hookLog' = <<>>
  /\ UNCHANGED <<options, hooks, state, snap, now, failuresSinceEntry, probeSuccesses>>

\* the caller lets go of its snapshot
dropSnapshot ==
  /\ snap # NoRef
  /\ snap # state
  /\ snap' = NoRef
  /\ heap' = Collect(heap, {state} \cup StoreRefs \cup LoadedRefs)
  /\ op' = "dropSnapshot"
  /\ pre' = cur
  /\ result' = "ok"
  /\ hookLog' = <<>>
  /\ UNCHANGED <<options, hooks, state, now, failuresSinceEntry, probeSuccesses>>

tick ==
  /\ now < MaxTime
  /\ now' = now + 1
  /\ op' = "tick"
  /\ pre' = cur
  /\ result' = "ok"
  /\ hookLog' = <<>>
  /\ UNCHANGED <<options, hooks, heap, state, snap, failuresSinceEntry, probeSuccesses>>

\* ------------------------------------------------ withCircuitBreaker
\* JavaScript runs a wrapped invocation to its next await without
\* interleaving: the gate and the call of fn are one step, the settling of
\* fn and the outcome report another.
admitted_always(r) == TRUE

\* line 163: a throw from assertCanExecute leaves the wrapper before fn is called
admitted(r) == r = "ok"

\* no wrapped invocation stands between a throw inside its try block and its catch block
idle == catching = "none"

\* lines 162-165: breaker.assertCanExecute(), then fn(...args) is called and awaited
wrappedInvoke ==
  /\ idle
  /\ assertCanExecute
  /\ IF admitted(result')
       THEN /\ inflight < MaxInFlight
            /\ inflight' = inflight + 1
            /\ delivered' = "none"
       ELSE /\ inflight' = inflight
            /\ delivered' = result'
  /\ recorded' = <<>>
  /\ fnOutcome' = "none"
  /\ UNCHANGED catching

\* lines 165-167: fn resolved; breaker.recordSuccess(), return result
wrappedResolve ==
  /\ idle
  /\ inflight > 0
  /\ recordSuccess
  /\ inflight' = inflight - 1
  /\ fnOutcome' = "resolved"
  /\ recorded' = <<"recordSuccess">>
  /\ IF result' = "ok"
       THEN delivered' = "value" /\ catching' = "none"
       ELSE delivered' = "none" /\ catching' = result'

\* lines 165, 168-170: fn rejected; breaker.recordFailure(), throw err
wrappedReject ==
  /\ idle
  /\ inflight > 0
  /\ recordFailure
  /\ inflight' = inflight - 1
  /\ fnOutcome' = "rejected"
  /\ recorded' = <<"recordFailure">>
  /\ delivered' = (IF result' = "ok" THEN "fnError" ELSE result')
  /\ UNCHANGED catching

\* lines 168-170, entered from a throw of recordSuccess inside the try block
wrappedCatch ==
  /\ ~idle
  /\ recordFailure
  /\ recorded' = Append(recorded, "recordFailure")
  /\ delivered' = (IF result' = "ok" THEN catching ELSE result')
  /\ catching' = "none"
  /\ UNCHANGED <<inflight, fnOutcome>>

\* ------------- wrapped invocations, by the period that admitted them
\* an invocation in flight was admitted in the present HALF_OPEN period, or earlier
SettleKinds == {"probe", "earlier"}

inFlightOf(kind) ==
  IF kind = "probe" THEN probesInFlight > 0 ELSE inflight - probesInFlight > 0

\* a HALF_OPEN period ends when the status changes; the invocation that settles leaves its kind
probesLeft(kind) ==
  IF cur'.status # "HALF_OPEN" THEN 0
  ELSE IF kind = "probe" THEN probesInFlight - 1
  ELSE probesInFlight

\* lines 162-165, with the period of the admission on record
trackedInvoke ==
  /\ wrappedInvoke
  /\ probesInFlight' =
       (IF cur'.status # "HALF_OPEN" THEN 0
        ELSE IF admitted(result') THEN probesInFlight + 1
        ELSE probesInFlight)
  /\ probeResolved' = (IF ~isHalfOpen /\ cur'.status = "HALF_OPEN" THEN 0 ELSE probeResolved)

\* lines 165-167: the protected function of one of the invocations in flight resolves
trackedResolve ==
  \E kind \in SettleKinds :
    /\ inFlightOf(kind)
    /\ wrappedResolve
    /\ probesInFlight' = probesLeft(kind)
    /\ probeResolved' = (IF kind = "probe" THEN probeResolved + 1 ELSE probeResolved)

\* lines 165, 168-170: the protected function of one of the invocations in flight rejects
trackedReject ==
  \E kind \in SettleKinds :
    /\ inFlightOf(kind)
    /\ wrappedReject
    /\ probesInFlight' = probesLeft(kind)
    /\ probeResolved' = probeResolved

\* ----------------------------------------------- CircuitBreakerGuard
\* the method that the decorator installs as descriptor.value, called on an
\* object whose breakerProperty holds the breaker
guardAdmitted_always(r) == TRUE

\* line 203: a throw from assertCanExecute leaves the method before the try block
guardAdmitted(r) == r = "ok"

\* lines 202-205: breaker.assertCanExecute(), then originalMethod.apply(this, args) is awaited
guardedInvoke ==
  /\ idle
  /\ assertCanExecute
  /\ IF guardAdmitted(result')
       THEN /\ inflight < MaxInFlight
            /\ inflight' = inflight + 1
            /\ delivered' = "none"
       ELSE /\ inflight' = inflight
            /\ delivered' = result'
  /\ recorded' = <<>>
  /\ fnOutcome' = "none"
  /\ UNCHANGED catching

\* lines 205-207: the original method resolved; breaker.recordSuccess(), return result
guardedResolve ==
  /\ idle
  /\ inflight > 0
  /\ recordSuccess
  /\ inflight' = inflight - 1
  /\ fnOutcome' = "resolved"
  /\ recorded' = <<"recordSuccess">>
  /\ IF result' = "ok"
       THEN delivered' = "value" /\ catching' = "none"
       ELSE delivered' = "none" /\ catching' = result'

\* lines 205, 208-210: the original method rejected; breaker.recordFailure(), throw err
guardedReject ==
  /\ idle
  /\ inflight > 0
  /\ recordFailure
  /\ inflight' = inflight - 1
  /\ fnOutcome' = "rejected"
  /\ recorded' = <<"recordFailure">>
  /\ delivered' = (IF result' = "ok" THEN "fnError" ELSE result')
  /\ UNCHANGED catching

\* lines 208-210, entered from a throw of recordSuccess inside the try block
guardedCatch ==
  /\ ~idle
  /\ recordFailure
  /\ recorded' = Append(recorded, "recordFailure")
  /\ delivered' = (IF result' = "ok" THEN catching ELSE result')
  /\ catching' = "none"
  /\ UNCHANGED <<inflight, fnOutcome>>

\* ---------------------------------------------- RemoteCircuitBreaker
\* what a storage call can do: work, or throw
StorageErrors == {"ConcurrencyConflictError", "Error"}
StorageOutcomes == {"ok"} \cup StorageErrors

storageCall(call, outcome) == [call |-> call, outcome |-> outcome]

\* MockStorage.put: a version that differs from the entry's present one
newVersion == IF store.version = 1 THEN 2 ELSE 1

\* MockStorage.put, lines 19-21: store { value, version: newVersion }
storagePut(value) == [value |-> value, version |-> newVersion]

\* save() calls put(name, state): the `version` parameter of MockStorage.put is undefined
putVersion == Undefined

\* MockStorage.put, lines 15-18: the version check
mockPutOutcome(version) ==
  IF version # Undefined /\ store # NoEntry /\ store.version # version
    THEN "ConcurrencyConflictError"
    ELSE "ok"

\* how storage.put(name, state) can end
putOutcomes ==
  CASE storage = "MockStorage" -> {mockPutOutcome(putVersion)}
    [] storage = "CloudflareKVStorage" -> {"ok", "Error"}
    [] OTHER -> StorageOutcomes

\* how storage.get(name) can end
getOutcomes ==
  CASE storage = "MockStorage" -> {"ok"}
    [] storage = "CloudflareKVStorage" -> {"ok", "Error"}
    [] OTHER -> StorageOutcomes

\* JSON.stringify({ ...value, version }): a key whose value is undefined is left out
toJSON(s, version) ==
  IF s.openedAt = Undefined
    THEN [status |-> s.status, failureCount |-> s.failureCount,
          successCount |-> s.successCount, version |-> version]
    ELSE [status |-> s.status, failureCount |-> s.failureCount,
          successCount |-> s.successCount, openedAt |-> s.openedAt, version |-> version]

\* CloudflareKVStorage.put: the version is new Date().toISOString()
kvPut(s) == toJSON(s, now)

\* CloudflareKVStorage.get: undefined for null, else { ...value, version } of the parsed document
kvGet(doc) == IF doc = NoDoc THEN NoEntry ELSE doc

\* what storage.get(name) resolves to
storageGet == IF storage = "CloudflareKVStorage" THEN kvGet(kv) ELSE store

\* save() hands this.state to storage.put
saveArgument == state

saveThrows_wraps(e) == "StorageOperationError"

saveThrows_rethrows(e) == e

\* save(), catch block: a ConcurrencyConflictError is rethrown, anything else wrapped
saveThrows(e) ==
  IF e = "ConcurrencyConflictError" THEN e ELSE "StorageOperationError"

safeSaveThrows_wraps(e) == "StorageOperationError"

\* safeSave(), catch block: an ItemAlreadyExistsError is rethrown, anything else wrapped
safeSaveThrows(e) ==
  IF e = "ItemAlreadyExistsError" THEN e ELSE "StorageOperationError"

safeSaveProceeds_always(existing) == TRUE

\* safeSave(), line 51: if (existing !== undefined) throw
safeSaveProceeds(existing) == existing = NoEntry

\* load(), catch block: everything is wrapped
loadThrows(e) == "StorageOperationError"

\* `cause` of a thrown error: what a StorageOperationError wraps
causeOf(thrown, e) == IF thrown = "StorageOperationError" THEN e ELSE "none"

loadResult_absent(raw) == NoRef

\* load(): if (!raw) return undefined; return raw.value
loadResult(raw) ==
  IF raw = NoEntry THEN NoRef
  ELSE IF "value" \in DOMAIN raw THEN raw.value
  ELSE NoRef

\* a remote operation leaves the engine alone
remoteCalled(name) ==
  /\ op' = name
  /\ pre' = cur
  /\ hookLog' = <<>>
  /\ UNCHANGED <<options, hooks, state, snap, now, failuresSinceEntry, probeSuccesses,
                 wrapperVars, storage, peer, peerPending, peerOp, peerResult, admissionVars>>

\* the heap once the storage entry and the loaded reference are as given
heapWith(entry, ref) ==
  Collect(heap, {state} \cup SnapRefs \cup ({entry.value, ref} \ {NoRef}))

\* await this.storage.put(this.name, this.state)
savePut(outcome) ==
  IF outcome # "ok"
    THEN UNCHANGED <<store, kv, heap, lastSaved, stale>>
    ELSE /\ IF storage = "CloudflareKVStorage"
              THEN /\ kv' = kvPut(heap[saveArgument])
                   /\ UNCHANGED <<store, heap>>
              ELSE /\ store' = storagePut(saveArgument)
                   /\ heap' = heapWith(storagePut(saveArgument), loaded)
                   /\ UNCHANGED kv
         /\ lastSaved' = cur
         /\ stale' = FALSE

\* the caller awaits one remote operation before it starts the next
save ==
  /\ pending = "none"
  /\ remoteCalled("save")
  /\ \E outcome \in putOutcomes :
       /\ storageLog' = <<storageCall("put", outcome)>>
       /\ savePut(outcome)
       /\ result' = (IF outcome = "ok" THEN "ok" ELSE saveThrows(outcome))
       /\ cause' = (IF outcome = "ok" THEN "none" ELSE causeOf(saveThrows(outcome), outcome))
  /\ UNCHANGED <<pending, loaded>>

\* safeSave() up to the end of `await this.storage.get(this.name)`
safeSaveGet ==
  /\ pending = "none"
  /\ remoteCalled("safeSave")
  /\ \E outcome \in getOutcomes :
       /\ storageLog' = <<storageCall("get", outcome)>>
       /\ IF outcome # "ok"
            THEN /\ result' = safeSaveThrows(outcome)
                 /\ cause' = causeOf(safeSaveThrows(outcome), outcome)
                 /\ pending' = "none"
            ELSE IF ~safeSaveProceeds(storageGet)
              THEN /\ result' = safeSaveThrows("ItemAlreadyExistsError")
                   /\ cause' = causeOf(safeSaveThrows("ItemAlreadyExistsError"),
                                       "ItemAlreadyExistsError")
                   /\ pending' = "none"
              ELSE /\ result' = "pending"
                   /\ cause' = "none"
                   /\ pending' = "safeSave"
  /\ UNCHANGED <<store, kv, heap, loaded, lastSaved, stale>>

\* safeSave() from `await this.save()` to its end
safeSavePut ==
  /\ pending = "safeSave"
  /\ remoteCalled("safeSave")
  /\ \E outcome \in putOutcomes :
       /\ storageLog' = Append(storageLog, storageCall("put", outcome))
       /\ savePut(outcome)
       /\ result' = (IF outcome = "ok" THEN "ok" ELSE safeSaveThrows(saveThrows(outcome)))
       /\ cause' = (IF outcome = "ok" THEN "none"
                    ELSE causeOf(safeSaveThrows(saveThrows(outcome)), saveThrows(outcome)))
  /\ pending' = "none"
  /\ UNCHANGED loaded

load ==
  /\ pending = "none"
  /\ remoteCalled("load")
  /\ \E outcome \in getOutcomes :
       /\ storageLog' = <<storageCall("get", outcome)>>
       /\ IF outcome = "ok"
            THEN /\ loaded' = loadResult(storageGet)
                 /\ result' = "ok"
                 /\ cause' = "none"
                 /\ stale' = FALSE
            ELSE /\ loaded' = NoRef
                 /\ result' = loadThrows(outcome)
                 /\ cause' = causeOf(loadThrows(outcome), outcome)
                 /\ stale' = stale
       /\ heap' = heapWith(store, loaded')
  /\ UNCHANGED <<store, kv, pending, lastSaved>>

\* the caller of load() is done with the object it received
releaseLoaded ==
  /\ loaded # NoRef
  /\ loaded' = NoRef
  /\ heap' = heapWith(store, NoRef)
  /\ op' = "releaseLoaded"
  /\ pre' = cur
  /\ UNCHANGED <<options, hooks, state, snap, now, result, hookLog,
                 failuresSinceEntry, probeSuccesses, wrapperVars,
                 store, pending, storageLog, cause, lastSaved, sharedVars, admissionVars>>

\* storage.delete(name), called by whoever else uses the storage
storageDelete ==
  /\ store # NoEntry \/ kv # NoDoc
  /\ remoteCalled("storage.delete")
  /\ store' = NoEntry
  /\ kv' = NoDoc
  /\ heap' = heapWith(NoEntry, loaded)
  /\ lastSaved' = NoState
  /\ result' = "ok"
  /\ storageLog' = (IF pending = "none" THEN <<>> ELSE storageLog)
  /\ cause' = "none"
  /\ UNCHANGED <<pending, loaded, stale>>

\* -------------------------------- a second instance under the same name
\* a call made on the second instance leaves this one alone
peerCalled(name) ==
  /\ op' = name
  /\ pre' = cur
  /\ UNCHANGED <<options, hooks, state, snap, now, result, hookLog,
                 failuresSinceEntry, probeSuccesses, wrapperVars,
                 pending, storageLog, cause, loaded, storage, kv, admissionVars>>

\* recordFailure() on the second instance, which was built with the same options
peerRecordFailure ==
  /\ peer.status = "CLOSED"
  /\ peerCalled("peer.recordFailure")
  /\ LET failureCount == peer.failureCount + 1
     IN peer' = (IF reachesFailureThreshold(failureCount)
                  THEN openState(now)
                  ELSE [peer EXCEPT !.failureCount = failureCount])
  /\ UNCHANGED <<heap, store, lastSaved, peerPending, peerOp, peerResult, stale>>

\* await this.storage.put(this.name, this.state) in the second instance
peerPut(outcome) ==
  IF outcome # "ok"
    THEN UNCHANGED <<store, heap, lastSaved, stale>>
    ELSE LET kept == {state} \cup SnapRefs \cup LoadedRefs
             o == NewObj(kept)
         IN /\ store' = storagePut(o)
            /\ heap' = [i \in {o} \cup kept |-> IF i = o THEN peer ELSE heap[i]]
            /\ lastSaved' = peer
            /\ stale' = TRUE

peerSave ==
  /\ peerPending = "none"
  /\ peerCalled("peer.save")
  /\ peerOp' = "save"
  /\ \E outcome \in putOutcomes :
       /\ peerPut(outcome)
       /\ peerResult' = (IF outcome = "ok" THEN "ok" ELSE saveThrows(outcome))
  /\ UNCHANGED <<peer, peerPending>>

peerSafeSaveGet ==
  /\ peerPending = "none"
  /\ peerCalled("peer.safeSave")
  /\ peerOp' = "safeSave"
  /\ \E outcome \in getOutcomes :
       IF outcome # "ok"
         THEN /\ peerResult' = safeSaveThrows(outcome)
              /\ peerPending' = "none"
         ELSE IF ~safeSaveProceeds(storageGet)
           THEN /\ peerResult' = safeSaveThrows("ItemAlreadyExistsError")
                /\ peerPending' = "none"
           ELSE /\ peerResult' = "pending"
                /\ peerPending' = "safeSave"
  /\ UNCHANGED <<heap, store, lastSaved, peer, stale>>

peerSafeSavePut ==
  /\ peerPending = "safeSave"
  /\ peerCalled("peer.safeSave")
  /\ peerOp' = "safeSave"
  /\ \E outcome \in putOutcomes :
       /\ peerPut(outcome)
       /\ peerResult' = (IF outcome = "ok" THEN "ok" ELSE safeSaveThrows(saveThrows(outcome)))
  /\ peerPending' = "none"
  /\ UNCHANGED peer

\* the caller of load() writes a field of the object it received
mutateLoaded ==
  /\ loaded # NoRef
  /\ \E w \in SnapshotWrites :
       /\ WriteField(heap[loaded], w) # heap[loaded]
       /\ heap' = [heap EXCEPT ![loaded] = WriteField(heap[loaded], w)]
  /\ op' = "mutateLoaded"
  /\ pre' = cur
  /\ UNCHANGED <<options, hooks, state, snap, now, result, hookLog,
                 failuresSinceEntry, probeSuccesses, wrapperVars, remoteVars, sharedVars,
                 admissionVars>>

\* ----------------------------------------------------- specification
constructWith(hookSet, storageArgument) ==
  /\ options \in CircuitBreakerOptions
  /\ hooks \in hookSet
  /\ state = 1
  /\ heap = [i \in {1} |-> InitialState]
  /\ snap = NoRef
  /\ now = 0
  /\ op = "constructor"
  /\ result = "ok"
  /\ pre = InitialState
  /\ hookLog = <<>>
  /\ failuresSinceEntry = 0
  /\ probeSuccesses = 0
  /\ inflight = 0
  /\ catching = "none"
  /\ recorded = <<>>
  /\ delivered = "none"
  /\ fnOutcome = "none"
  /\ store = NoEntry
  /\ pending = "none"
  /\ storageLog = <<>>
  /\ cause = "none"
  /\ loaded = NoRef
  /\ lastSaved = NoState
  /\ storage = storageArgument
  /\ kv = NoDoc
  /\ peer = InitialState
  /\ peerPending = "none"
  /\ peerOp = "none"
  /\ peerResult = "none"
  /\ stale = FALSE
  /\ probesInFlight = 0
  /\ probeResolved = 0

\* a CircuitBreaker: no storage
construct(hookSet) == constructWith(hookSet, "none")

\* a call made on the breaker directly, with no wrapper and no storage involved
direct == UNCHANGED <<wrapperVars, remoteVars, sharedVars, admissionVars>>

Init == construct(WellBehavedHooks)

Next ==
  \/ assertCanExecute /\ direct
  \/ recordSuccess /\ direct
  \/ recordFailure /\ direct
  \/ getState /\ direct
  \/ statusPredicate /\ direct
  \/ mutateSnapshot /\ direct
  \/ dropSnapshot /\ direct
  \/ tick /\ direct

Spec == Init /\ [][Next]_vars

\* the engine with every kind of hook, throwing ones included
InitHooks == construct(CircuitBreakerHooks)

NextHooks ==
  \/ assertCanExecute /\ direct
  \/ recordSuccess /\ direct
  \/ recordFailure /\ direct
  \/ tick /\ direct

SpecHooks == InitHooks /\ [][NextHooks]_vars

\* calls made through withCircuitBreaker, with every kind of hook
NextWrapped ==
  \/ wrappedInvoke /\ UNCHANGED <<remoteVars, sharedVars, admissionVars>>
  \/ wrappedResolve /\ UNCHANGED <<remoteVars, sharedVars, admissionVars>>
  \/ wrappedReject /\ UNCHANGED <<remoteVars, sharedVars, admissionVars>>
  \/ wrappedCatch /\ UNCHANGED <<remoteVars, sharedVars, admissionVars>>
  \/ idle /\ tick /\ direct

SpecWrapped == InitHooks /\ [][NextWrapped]_vars

\* a breaker built without hooks
NoHooks == [onStateChange : {"absent"}, onError : {"absent"}]

\* several wrapped invocations in flight on one breaker without hooks
InitInFlight == construct(NoHooks)

NextInFlight ==
  \/ trackedInvoke /\ UNCHANGED <<remoteVars, sharedVars>>
  \/ trackedResolve /\ UNCHANGED <<remoteVars, sharedVars>>
  \/ trackedReject /\ UNCHANGED <<remoteVars, sharedVars>>
  \/ tick /\ direct

SpecInFlight == InitInFlight /\ [][NextInFlight]_vars

\* calls made through a method decorated with CircuitBreakerGuard
NextGuarded ==
  \/ guardedInvoke /\ UNCHANGED <<remoteVars, sharedVars, admissionVars>>
  \/ guardedResolve /\ UNCHANGED <<remoteVars, sharedVars, admissionVars>>
  \/ guardedReject /\ UNCHANGED <<remoteVars, sharedVars, admissionVars>>
  \/ guardedCatch /\ UNCHANGED <<remoteVars, sharedVars, admissionVars>>
  \/ idle /\ tick /\ direct

SpecGuarded == InitHooks /\ [][NextGuarded]_vars

\* a RemoteCircuitBreaker (no hooks) and its storage
\* the persistence code never reads the options: the reset timeout is left at 0
InitRemote ==
  constructWith(NoHooks, "AsyncCircuitBreakerStorage") /\ options.resetTimeoutMs = 0

\* the caller makes its next call once it is done with what load() returned
callerReady == loaded = NoRef

\* an engine call made on a RemoteCircuitBreaker: no storage call, no cause
inherited ==
  /\ storageLog' = (IF pending = "none" THEN <<>> ELSE storageLog)
  /\ cause' = "none"
  /\ UNCHANGED <<wrapperVars, store, pending, loaded, lastSaved, sharedVars, admissionVars>>

NextRemote ==
  \/ callerReady /\ assertCanExecute /\ inherited
  \/ callerReady /\ recordSuccess /\ inherited
  \/ callerReady /\ recordFailure /\ inherited
  \/ callerReady /\ tick /\ inherited
  \/ callerReady /\ save
  \/ callerReady /\ safeSaveGet
  \/ callerReady /\ safeSavePut
  \/ callerReady /\ load
  \/ callerReady /\ storageDelete
  \/ releaseLoaded

SpecRemote == InitRemote /\ [][NextRemote]_vars

\* the engine with a caller that keeps calling and a clock that keeps advancing
InitLive == construct(NoHooks)

NextLive ==
  \/ assertCanExecute /\ direct
  \/ recordSuccess /\ direct
  \/ recordFailure /\ direct
  \/ tick /\ direct

SpecLive ==
  /\ InitLive
  /\ [][NextLive]_vars
  /\ WF_vars(tick /\ direct)
  /\ WF_vars(assertCanExecute /\ direct)

\* two RemoteCircuitBreaker instances with one name on one MockStorage
InitShared == constructWith(NoHooks, "MockStorage") /\ options.resetTimeoutMs = 0

NextShared ==
  \/ callerReady /\ recordFailure /\ inherited
  \/ callerReady /\ save
  \/ callerReady /\ safeSaveGet
  \/ callerReady /\ safeSavePut
  \/ callerReady /\ load
  \/ callerReady /\ storageDelete
  \/ releaseLoaded
  \/ peerRecordFailure
  \/ peerSave
  \/ peerSafeSaveGet
  \/ peerSafeSavePut

SpecShared == InitShared /\ [][NextShared]_vars

\* a RemoteCircuitBreaker on a CloudflareKVStorage
InitKV == constructWith(NoHooks, "CloudflareKVStorage") /\ options.resetTimeoutMs = 0

NextKV ==
  \/ assertCanExecute /\ inherited
  \/ recordSuccess /\ inherited
  \/ recordFailure /\ inherited
  \/ tick /\ inherited
  \/ save
  \/ safeSaveGet
  \/ safeSavePut
  \/ load
  \/ storageDelete

SpecKV == InitKV /\ [][NextKV]_vars

\* one instance on a MockStorage, and a caller that writes into what load() returned
NextAliased ==
  \/ callerReady /\ recordFailure /\ inherited
  \/ callerReady /\ save
  \/ callerReady /\ load
  \/ mutateLoaded
  \/ releaseLoaded

SpecAliased == InitShared /\ [][NextAliased]_vars

TypeOK ==
  /\ options \in CircuitBreakerOptions
  /\ hooks \in CircuitBreakerHooks
  /\ state \in DOMAIN heap
  /\ snap \in DOMAIN heap \cup {NoRef}
  /\ cur.status \in CircuitBreakerStatus
  /\ now \in 0..MaxTime

\* ------------------------------------------------------------ claims
EngineCalls == {"assertCanExecute", "recordSuccess", "recordFailure"}

Opened(t) == [status |-> "OPEN", failureCount |-> 0, successCount |-> 0, openedAt |-> t]

\* C1: while CLOSED, a call opens the circuit exactly when it is the
\* recordFailure call that brings the failures recorded since CLOSED was
\* entered up to failureThreshold (recordSuccess calls in between do not
\* reset the count); the state after it is {OPEN, 0, 0, openedAt = now}.
C1_OpensExactlyAtThreshold ==
  [][(op' \in EngineCalls /\ isClosed) =>
       /\ (cur'.status = "OPEN") <=>
            (op' = "recordFailure" /\ failuresSinceEntry + 1 = options.failureThreshold)
       /\ (cur'.status = "OPEN") => (cur' = Opened(now))
       /\ (cur'.status # "OPEN") => (cur'.status = "CLOSED")]_vars

C1_Witness ==
  /\ op = "recordFailure"
  /\ pre.status = "CLOSED"
  /\ pre.failureCount = 1
  /\ options.failureThreshold = 2
  /\ cur = Opened(now)
  /\ now > 0

\* C2: while OPEN, for every openedAt >= 0 (0 included) and every
\* resetTimeoutMs >= 0, assertCanExecute throws and stays OPEN when
\* now - openedAt < resetTimeoutMs, and otherwise returns normally and
\* leaves the status HALF_OPEN.
C2_GateFollowsDeadline ==
  [][(op' = "assertCanExecute" /\ isOpen) =>
       IF now - cur.openedAt < options.resetTimeoutMs
         THEN result' = "CircuitOpenError" /\ cur'.status = "OPEN"
         ELSE result' = "ok" /\ cur'.status = "HALF_OPEN"]_vars

\* C3: after HALF_OPEN is entered, with no recordFailure in between, each of
\* the first successThreshold - 1 recordSuccess calls leaves the status
\* HALF_OPEN and the successThreshold-th changes it to CLOSED with both
\* counters zero and openedAt cleared.
C3_ClosesAfterSuccessThreshold ==
  [][(op' = "recordSuccess" /\ isHalfOpen /\ failuresSinceEntry = 0) =>
       IF probeSuccesses + 1 < options.successThreshold
         THEN cur'.status = "HALF_OPEN"
         ELSE cur' = [status |-> "CLOSED", failureCount |-> 0, successCount |-> 0,
                      openedAt |-> Undefined]]_vars

C3_Witness ==
  /\ op = "recordSuccess"
  /\ pre.status = "HALF_OPEN"
  /\ pre.successCount = 1
  /\ options.successThreshold = 2
  /\ cur.status = "CLOSED"
  /\ cur.openedAt = Undefined

\* C4 (as stated): for every failureThreshold >= 1 and every number of
\* successes recorded, one recordFailure call made while HALF_OPEN changes
\* the state to {OPEN, 0, 0, openedAt = now}.
C4_AnyProbeFailureOpens ==
  [][(op' = "recordFailure" /\ isHalfOpen) => (cur' = Opened(now))]_vars

\* C4 (amended): for every number of successes recorded, the recordFailure
\* call made while HALF_OPEN that brings the failures recorded since
\* HALF_OPEN was entered up to failureThreshold changes the state to
\* {OPEN, 0, 0, openedAt = now}; with failureThreshold = 1 that is every
\* recordFailure call made while HALF_OPEN.
C4_ProbeFailureAtThresholdOpens ==
  [][(op' = "recordFailure" /\ isHalfOpen
        /\ failuresSinceEntry + 1 >= options.failureThreshold) =>
       (cur' = Opened(now))]_vars

C4_Witness ==
  /\ op = "recordFailure"
  /\ pre.status = "HALF_OPEN"
  /\ pre.successCount = 1
  /\ pre.openedAt # now
  /\ cur = Opened(now)

\* C5: in HALF_OPEN recordFailure applies the CLOSED rule: failureCount is
\* the number of failures recorded since HALF_OPEN was entered, the status
\* becomes OPEN if and only if failureCount + 1 >= failureThreshold, and
\* otherwise the status stays HALF_OPEN and failureCount grows by one.
C5_SharedThresholdInHalfOpen ==
  [][(op' = "recordFailure" /\ isHalfOpen) =>
       /\ cur.failureCount = failuresSinceEntry
       /\ (cur'.status = "OPEN") <=> (cur.failureCount + 1 >= options.failureThreshold)
       /\ (cur'.status # "OPEN") =>
            /\ cur'.status = "HALF_OPEN"
            /\ cur'.failureCount = cur.failureCount + 1]_vars

C5_Witness ==
  /\ op = "recordFailure"
  /\ pre.status = "HALF_OPEN"
  /\ cur.status = "HALF_OPEN"
  /\ cur.failureCount = 1
  /\ options.failureThreshold = 2

\* C6 (as stated): the OPEN -> HALF_OPEN transition of assertCanExecute
\* produces {HALF_OPEN, 0, 0, openedAt absent}.
C6_ProbeAdmissionClearsOpenedAt ==
  [][(op' = "assertCanExecute" /\ isOpen /\ cur'.status = "HALF_OPEN") =>
       (cur' = [status |-> "HALF_OPEN", failureCount |-> 0, successCount |-> 0,
                openedAt |-> Undefined])]_vars

\* C6 (amended): the OPEN -> HALF_OPEN transition of assertCanExecute
\* produces {HALF_OPEN, 0, 0, openedAt as it was while OPEN}: both counters
\* are reset and openedAt is kept.
C6_ProbeAdmissionKeepsOpenedAt ==
  [][(op' = "assertCanExecute" /\ isOpen /\ cur'.status = "HALF_OPEN") =>
       (cur' = [status |-> "HALF_OPEN", failureCount |-> 0, successCount |-> 0,
                openedAt |-> cur.openedAt] /\ cur.openedAt # Undefined)]_vars

C6_Witness ==
  /\ op = "assertCanExecute"
  /\ pre.status = "OPEN"
  /\ cur.status = "HALF_OPEN"
  /\ cur.openedAt = pre.openedAt
  /\ cur.openedAt > 0

\* C7: assertCanExecute changes nothing except on the OPEN -> HALF_OPEN
\* admission: in CLOSED or HALF_OPEN it returns normally, keeps the state
\* and invokes no hook; in OPEN before the deadline it throws and keeps the
\* state.
C7_GateFrame ==
  [][(op' = "assertCanExecute") =>
       /\ (isClosed \/ isHalfOpen) =>
            (result' = "ok" /\ cur' = cur /\ hookLog' = <<>>)
       /\ (isOpen /\ now - cur.openedAt < options.resetTimeoutMs) =>
            (result' = "CircuitOpenError" /\ cur' = cur)
       /\ (cur' # cur) => (isOpen /\ cur'.status = "HALF_OPEN")]_vars

C7_Witness ==
  /\ op = "assertCanExecute"
  /\ pre.status = "HALF_OPEN"
  /\ pre.successCount = 1
  /\ result = "ok"
  /\ cur = pre
  /\ hookLog = <<>>
  /\ hooks.onStateChange = "observes"

\* C8: recordSuccess in CLOSED or OPEN and recordFailure in OPEN return
\* normally, keep status, failureCount, successCount and openedAt, and
\* invoke no hook.
C8_InapplicableOutcomeDiscarded ==
  [][(\/ op' = "recordSuccess" /\ (isClosed \/ isOpen)
      \/ op' = "recordFailure" /\ isOpen) =>
       (result' = "ok" /\ cur' = cur /\ hookLog' = <<>>)]_vars

C8_Witness ==
  /\ op = "recordFailure"
  /\ pre.status = "OPEN"
  /\ pre.openedAt < now
  /\ cur = pre
  /\ result = "ok"
  /\ hooks.onStateChange = "observes"

\* C9: the breaker starts CLOSED and the status changes only CLOSED -> OPEN
\* by recordFailure, OPEN -> HALF_OPEN by assertCanExecute, HALF_OPEN ->
\* CLOSED by recordSuccess and HALF_OPEN -> OPEN by recordFailure; getState
\* and the status predicates never change it.
C9_Transition(from, to, by) ==
  \/ from = "CLOSED" /\ to = "OPEN" /\ by = "recordFailure"
  \/ from = "OPEN" /\ to = "HALF_OPEN" /\ by = "assertCanExecute"
  \/ from = "HALF_OPEN" /\ to = "CLOSED" /\ by = "recordSuccess"
  \/ from = "HALF_OPEN" /\ to = "OPEN" /\ by = "recordFailure"

C9_OnlyFourTransitions ==
  /\ cur.status = "CLOSED"
  /\ [][(cur'.status # cur.status) => C9_Transition(cur.status, cur'.status, op')]_vars

C9_Witness ==
  /\ op = "recordSuccess"
  /\ pre.status = "HALF_OPEN"
  /\ cur.status = "CLOSED"
  /\ now > 0

\* C10: writing a field of an object returned by getState() changes neither
\* the breaker's state nor what a later getState() returns, and an engine
\* call does not change a snapshot taken before it.
C10_SnapshotIsolation ==
  [][/\ (op' = "mutateSnapshot") => (cur' = cur)
     /\ (op' = "getState") => (heap'[snap'] = cur /\ cur' = cur)
     /\ (op' \in EngineCalls /\ snap # NoRef) =>
          (snap' = snap /\ heap'[snap] = heap[snap])]_vars

C10_Witness ==
  /\ op = "recordFailure"
  /\ snap # NoRef
  /\ heap[snap].status = "OPEN"
  /\ heap[snap].openedAt = Undefined
  /\ cur.status = "CLOSED"
  /\ cur.failureCount = 1

HookCalls(log, h) == {i \in 1..Len(log) : log[i].hook = h}

\* C11: a supplied onStateChange is invoked exactly once by every engine
\* call that replaces the state, with prev the state before the call, next
\* the committed state after it and meta.name the breaker's name (also when
\* only a counter changes), and never by a call that leaves the state as
\* it was.
C11_StateChangeHookOncePerReplacement ==
  [][(op' \in EngineCalls /\ hooks.onStateChange # "absent") =>
       IF cur' # cur
         THEN /\ Cardinality(HookCalls(hookLog', "onStateChange")) = 1
              /\ hookLog'[1] = [hook |-> "onStateChange", prev |-> cur, next |-> cur',
                                name |-> BreakerName]
         ELSE HookCalls(hookLog', "onStateChange") = {}]_vars

C11_Witness ==
  /\ op = "recordFailure"
  /\ hooks.onStateChange = "observes"
  /\ pre.status = "HALF_OPEN"
  /\ cur.status = "HALF_OPEN"
  /\ cur.failureCount = 1
  /\ hookLog = <<[hook |-> "onStateChange", prev |-> pre, next |-> cur, name |-> BreakerName]>>

\* C12: when assertCanExecute rejects because the circuit is OPEN and not
\* yet eligible to probe, a supplied onError is invoked exactly once, with
\* the error the caller receives and meta {name, operation:
\* 'assertCanExecute'}; no engine call that returns normally invokes onError.
C12_ErrorHookOnRejection ==
  [][(op' \in EngineCalls /\ hooks.onError # "absent") =>
       /\ (op' = "assertCanExecute" /\ isOpen /\ cur'.status = "OPEN") =>
            /\ result' = "CircuitOpenError"
            /\ hookLog' = <<[hook |-> "onError", error |-> "CircuitOpenError",
                             name |-> BreakerName, operation |-> "assertCanExecute"]>>
       /\ (result' = "ok") => (HookCalls(hookLog', "onError") = {})]_vars

C12_Witness ==
  /\ op = "assertCanExecute"
  /\ hooks.onError = "observes"
  /\ pre.status = "OPEN"
  /\ pre.openedAt > 0
  /\ result = "CircuitOpenError"
  /\ Len(hookLog) = 1
  /\ hookLog[1].hook = "onError"

\* the state an engine call leaves, as a function of the call, the state
\* before it, the clock and the options only
C13_After(name, s, t) ==
  CASE name = "assertCanExecute" ->
         IF s.status = "OPEN" /\ s.openedAt > 0 /\ t - s.openedAt >= options.resetTimeoutMs
           THEN [s EXCEPT !.status = "HALF_OPEN", !.failureCount = 0, !.successCount = 0]
           ELSE s
    [] name = "recordSuccess" ->
         IF s.status # "HALF_OPEN" THEN s
         ELSE IF s.successCount + 1 >= options.successThreshold
           THEN [status |-> "CLOSED", failureCount |-> 0, successCount |-> 0,
                 openedAt |-> Undefined]
           ELSE [s EXCEPT !.successCount = s.successCount + 1]
    [] name = "recordFailure" ->
         IF s.status = "OPEN" THEN s
         ELSE IF s.failureCount + 1 >= options.failureThreshold
           THEN Opened(t)
           ELSE [s EXCEPT !.failureCount = s.failureCount + 1]

\* C13: hooks take no part in the transition decision: whether the hooks are
\* absent, observe or throw, every engine call leaves the state that the
\* call, the state before it and the clock determine; when onStateChange
\* throws, the new state is committed and the call ends with the exception.
C13_HooksDoNotDecide ==
  [][(op' \in EngineCalls) =>
       /\ cur' = C13_After(op', cur, now)
       /\ (hooks.onStateChange = "throws" /\ cur' # cur) => (result' = "HookError")]_vars

C13_Witness ==
  /\ op = "recordFailure"
  /\ hooks.onStateChange = "throws"
  /\ result = "HookError"
  /\ pre.status = "HALF_OPEN"
  /\ pre.successCount = 1
  /\ cur = Opened(now)

\* C14: the protected function is invoked only by an invocation that
\* assertCanExecute has let through; when the gate rejects (OPEN, before the
\* deadline) the wrapped call rejects with the gate's error, the function
\* is not invoked, no outcome is reported and the breaker state is unchanged.
C14_GateBeforeCall ==
  [][/\ (inflight' > inflight) => (op' = "assertCanExecute" /\ result' = "ok")
     /\ (op' = "assertCanExecute" /\ isOpen /\ now - cur.openedAt < options.resetTimeoutMs) =>
          /\ result' # "ok"
          /\ delivered' = result'
          /\ inflight' = inflight
          /\ recorded' = <<>>
          /\ catching' = "none"
          /\ cur' = cur]_vars

C14_Witness ==
  /\ op = "assertCanExecute"
  /\ pre.status = "OPEN"
  /\ now - pre.openedAt < options.resetTimeoutMs
  /\ delivered = "CircuitOpenError"
  /\ inflight = 1
  /\ recorded = <<>>
  /\ cur = pre

\* C15: for every hook behaviour, an invocation the gate admitted reports
\* exactly one outcome, exactly once: recordSuccess and not recordFailure
\* when the protected function resolved, recordFailure and not
\* recordSuccess when it rejected.
C15_ExactlyOneOutcome ==
  /\ (fnOutcome = "resolved") => (recorded \in {<<"recordSuccess">>})
  /\ (fnOutcome = "rejected") => (recorded \in {<<"recordFailure">>})

RemoteCalls == {"save", "safeSave", "load"}

LastStorageCall(log) == log[Len(log)]

\* C16: with a storage that hands back what was last put, a load() that
\* follows a save() with no write to the entry in between returns a state
\* equal to the saved one in status, failureCount, successCount, openedAt.
C16_SaveLoadRoundTrip ==
  [][(callerReady /\ op' = "load" /\ result' = "ok" /\ lastSaved # NoState) =>
       /\ loaded' # NoRef
       /\ heap'[loaded'].status = lastSaved.status
       /\ heap'[loaded'].failureCount = lastSaved.failureCount
       /\ heap'[loaded'].successCount = lastSaved.successCount
       /\ heap'[loaded'].openedAt = lastSaved.openedAt]_vars

C16_Witness ==
  /\ op = "load"
  /\ result = "ok"
  /\ loaded # NoRef
  /\ heap[loaded] = lastSaved
  /\ heap[loaded].status = "HALF_OPEN"
  /\ heap[loaded].successCount = 1
  /\ heap[loaded].openedAt > 0
  /\ cur.status = "CLOSED"

\* C17: when storage.get returns an entry, safeSave() fails with
\* ItemAlreadyExistsError itself (wrapped in nothing), calls storage.put
\* zero times and leaves the entry and its version as they were.
C17_SafeSaveRefusesExisting ==
  [][(op' = "safeSave" /\ pending = "none" /\ store # NoEntry
        /\ storageLog' = <<storageCall("get", "ok")>>) =>
       /\ result' = "ItemAlreadyExistsError"
       /\ cause' = "none"
       /\ pending' = "none"
       /\ store' = store]_vars

C17_Witness ==
  /\ op = "safeSave"
  /\ result = "ItemAlreadyExistsError"
  /\ storageLog = <<storageCall("get", "ok")>>
  /\ store.version = 2
  /\ heap[store.value].status = "OPEN"

\* C18: when storage.put raises ConcurrencyConflictError during save(),
\* save() fails with that error, not wrapped, after exactly one put, and the
\* in-memory state is unchanged.
C18_SaveRethrowsConflict ==
  [][(op' = "save" /\ LastStorageCall(storageLog') = storageCall("put", "ConcurrencyConflictError")) =>
       /\ result' = "ConcurrencyConflictError"
       /\ cause' = "none"
       /\ Len(storageLog') = 1
       /\ cur' = cur
       /\ store' = store]_vars

C18_Witness ==
  /\ op = "save"
  /\ result = "ConcurrencyConflictError"
  /\ storageLog = <<storageCall("put", "ConcurrencyConflictError")>>
  /\ store # NoEntry
  /\ cur.status = "OPEN"
  /\ heap[store.value].status = "CLOSED"

\* C19: when no entry exists and storage.put raises
\* ConcurrencyConflictError during safeSave(), safeSave() fails with that
\* ConcurrencyConflictError, not wrapped in StorageOperationError.
C19_SafeSaveRethrowsConflict ==
  [][(op' = "safeSave" /\ pending = "safeSave" /\ store = NoEntry
        /\ LastStorageCall(storageLog') = storageCall("put", "ConcurrencyConflictError")) =>
       (result' = "ConcurrencyConflictError")]_vars

C21_CauseIsStorageError ==
  [][(op' \in RemoteCalls /\ result' = "StorageOperationError") =>
       (cause' = LastStorageCall(storageLog').outcome)]_vars


\* C22: load() returns undefined exactly when the storage holds no entry
\* under the name, and otherwise the state last stored there; it makes one
\* storage.get call and no write, and leaves the in-memory state as it was.
C22_LoadReadsOnly ==
  [][(callerReady /\ op' = "load") =>
       /\ storageLog'[1].call = "get"
       /\ Len(storageLog') = 1
       /\ store' = store
       /\ state' = state
       /\ cur' = cur
       /\ (result' = "ok") =>
            /\ (loaded' = NoRef) <=> (store = NoEntry)
            /\ (store # NoEntry) => (heap'[loaded'] = heap[store.value])]_vars

C22_Witness ==
  /\ op = "load"
  /\ result = "ok"
  /\ storageLog = <<storageCall("get", "ok")>>
  /\ loaded = NoRef
  /\ store = NoEntry
  /\ cur.status = "OPEN"


\* C23: when the second instance has written the entry after this
\* instance's last load or save, this instance's next save() is rejected
\* with ConcurrencyConflictError and the entry is left as the second
\* instance wrote it.
C23_StaleSaveRejected ==
  [][(op' = "save" /\ stale) =>
       /\ result' = "ConcurrencyConflictError"
       /\ store' = store]_vars


\* C24: safeSave() checks and then writes in two steps.  Once its get has
\* found no entry, its put goes ahead whatever the other instance has
\* written since, and the entry then holds the state of the later put; a
\* safeSave() whose get comes after the other instance's put fails with
\* ItemAlreadyExistsError and writes nothing.
C24_SafeSaveCheckThenAct ==
  [][/\ (op' = "safeSave" /\ pending = "safeSave") =>
          (result' = "ok" /\ heap'[store'.value] = cur)
     /\ (op' = "peer.safeSave" /\ peerPending = "safeSave") =>
          (peerResult' = "ok" /\ heap'[store'.value] = peer)
     /\ (op' = "safeSave" /\ pending = "none" /\ store # NoEntry) =>
          (result' = "ItemAlreadyExistsError" /\ store' = store)
     /\ (op' = "peer.safeSave" /\ peerPending = "none" /\ store # NoEntry) =>
          (peerResult' = "ItemAlreadyExistsError" /\ store' = store)]_vars

\* both safeSave() calls have completed without error, the second
\* instance's put first, and the entry holds this instance's state
C24_Witness ==
  /\ op = "safeSave"
  /\ result = "ok"
  /\ peerOp = "safeSave"
  /\ peerResult = "ok"
  /\ storageLog = <<storageCall("get", "ok"), storageCall("put", "ok")>>
  /\ store.version = 2
  /\ heap[store.value] = cur
  /\ cur # peer


\* C25: the stored state is a copy.  An engine transition made after
\* save() leaves the stored entry as it was, and a write to a field of the
\* object that load() returned (the value the storage holds) leaves the
\* engine's in-memory state as it was.
C25_StoredStateIsACopy ==
  [][/\ (op' \in EngineCalls /\ store # NoEntry) =>
          (store' = store /\ heap'[store'.value] = heap[store.value])
     /\ (op' = "mutateLoaded") => (cur' = cur)]_vars


\* C26: in every reachable state openedAt is present exactly when the
\* status is OPEN or HALF_OPEN; it is set to the clock of the recordFailure
\* call that opens the circuit, and it keeps that value while the circuit
\* stays OPEN and while it is probing.
C26_OpenedAtTracksStatus ==
  /\ []((cur.openedAt # Undefined) <=> (cur.status \in {"OPEN", "HALF_OPEN"}))
  /\ [][/\ (cur'.status = "OPEN" /\ cur.status # "OPEN") =>
             (op' = "recordFailure" /\ cur'.openedAt = now)
        /\ (cur'.status = "OPEN" /\ cur.status = "OPEN") =>
             (cur'.openedAt = cur.openedAt)
        /\ (cur'.status = "HALF_OPEN") =>
             (cur'.openedAt = cur.openedAt)]_vars

C26_Witness ==
  /\ op = "recordSuccess"
  /\ pre.status = "HALF_OPEN"
  /\ cur.status = "HALF_OPEN"
  /\ cur.successCount = 1
  /\ cur.openedAt = 1
  /\ now = 3


\* C27: an outcome that stays below its threshold changes its own counter
\* only: recordSuccess while HALF_OPEN adds 1 to successCount, recordFailure
\* while CLOSED or HALF_OPEN adds 1 to failureCount, and status, the other
\* counter and openedAt stay as they were.
C27_SubThresholdOutcomeCountsOnly ==
  [][/\ (op' = "recordSuccess" /\ isHalfOpen
           /\ cur.successCount + 1 < options.successThreshold) =>
          (cur' = [cur EXCEPT !.successCount = cur.successCount + 1])
     /\ (op' = "recordFailure" /\ (isClosed \/ isHalfOpen)
           /\ cur.failureCount + 1 < options.failureThreshold) =>
          (cur' = [cur EXCEPT !.failureCount = cur.failureCount + 1])]_vars

C27_Witness ==
  /\ op = "recordFailure"
  /\ pre.status = "HALF_OPEN"
  /\ pre.successCount = 1
  /\ pre.failureCount = 0
  /\ cur = [pre EXCEPT !.failureCount = 1]
  /\ cur.openedAt # Undefined


\* C28: there is no terminal state; in particular a breaker that is OPEN
\* leaves OPEN once the clock has advanced by resetTimeoutMs and
\* assertCanExecute is called, for every opening timestamp >= 0 (the
\* deadline lying within the clock's range).
C28_OpenEventuallyLeaves ==
  (isOpen /\ cur.openedAt + options.resetTimeoutMs <= MaxTime) ~> ~isOpen


\* C29: a method decorated with CircuitBreakerGuard behaves as the same
\* function wrapped by withCircuitBreaker on the same breaker: every step
\* of the decorated method is a step of the wrapper with the same breaker
\* state, outcome reports and result for the caller, and in no reachable
\* state can the wrapper take a step that the decorated method cannot.
C29_GuardBehavesAsWrapper ==
  /\ [][NextWrapped]_vars
  /\ [](~ENABLED (NextWrapped /\ ~NextGuarded))

C29_Witness ==
  /\ op = "recordFailure"
  /\ fnOutcome = "resolved"
  /\ recorded = <<"recordSuccess", "recordFailure">>
  /\ delivered = "HookError"
  /\ cur.status = "OPEN"
  /\ inflight = 1


\* C30: on a CloudflareKVStorage, get after put resolves to an envelope
\* whose value is the state that was put, so that a load() that follows a
\* save() returns a state equal to the saved one in status, failureCount,
\* successCount and openedAt, and not undefined.
C30_KVSaveLoadRoundTrip ==
  [][(op' = "load" /\ result' = "ok" /\ kv # NoDoc) =>
       /\ "value" \in DOMAIN storageGet
       /\ loaded' # NoRef
       /\ heap'[loaded'].status = lastSaved.status
       /\ heap'[loaded'].failureCount = lastSaved.failureCount
       /\ heap'[loaded'].successCount = lastSaved.successCount
       /\ heap'[loaded'].openedAt = lastSaved.openedAt]_vars


\* C31: in every reachable state 0 <= failureCount < failureThreshold and
\* 0 <= successCount < successThreshold; an OPEN state has both counters
\* at 0 and a CLOSED state has successCount at 0.
C31_CounterBounds ==
  /\ 0 <= cur.failureCount
  /\ cur.failureCount < options.failureThreshold
  /\ 0 <= cur.successCount
  /\ cur.successCount < options.successThreshold
  /\ isOpen => (cur.failureCount = 0 /\ cur.successCount = 0)
  /\ isClosed => (cur.successCount = 0)

C31_Witness ==
  /\ isHalfOpen
  /\ cur.failureCount = options.failureThreshold - 1
  /\ cur.successCount = options.successThreshold - 1
  /\ cur.failureCount = 1
  /\ cur.successCount = 1


\* C32: with several wrapped invocations in flight, the status changes from
\* HALF_OPEN to CLOSED only when at least successThreshold invocations that
\* the gate admitted in the present HALF_OPEN period have resolved; the
\* success of an invocation admitted before the circuit last opened does
\* not count.
C32_ClosesOnProbeSuccessesOnly ==
  [][(isHalfOpen /\ cur'.status = "CLOSED") =>
       (probeResolved' >= options.successThreshold)]_vars

====
